---- MODULE Spec2Model ----
(***************************************************************************)
(* Model of mvpa2/misc/plot/flat_surf.py: the grid axis builder, the       *)
(* flatness gate, the boundary rasterizer and the FlatSurfacePlotter.      *)
(*                                                                         *)
(* Coordinates are integers; every derived quantity (delta, the axis       *)
(* values, the virtual column indices) is an exact rational [n, d].        *)
(* Vertex and path positions are 1-based here (0-based in the source);     *)
(* grid columns and rows keep the 0-based numbers of the source because    *)
(* the column number is an arithmetic quantity (ceil of vi2xi).            *)
(***************************************************************************)
EXTENDS Integers, Sequences, FiniteSets, TLC

VARIABLES
    surface,        \* the flat surface: projected x, y, border paths, face normals
    min_nsteps,     \* argument min_nsteps
    max_deformation,\* argument max_deformation, a rational
    pc,             \* position inside flat_surface2grid_mask
    xi, yi,         \* grid axes (sequences of rationals), <<>> before they exist
    vi2xi,          \* virtual column index of every vertex
    xidx2segments,  \* column -> list of border segments (i, j)
    msk,            \* msk[jj][ii], rows 0..len(yi)-1, columns 0..len(xi)-1
    ii,             \* the column the rasterizer loop is at
    divzero,        \* a division by x[j] - x[i] = 0 was evaluated
    result,         \* what flat_surface2grid_mask returned, <<>> before it returns
    lens,           \* the axis lengths computed in double precision, <<>> before
    fsp,            \* the fields of a FlatSurfacePlotter, <<>> when there is none
    trace           \* what the calls on the plotter did, <<>> when there is none

inputs == <<surface, min_nsteps, max_deformation>>
plotvars == <<fsp, trace>>
vars == <<surface, min_nsteps, max_deformation, pc, xi, yi, vi2xi,
          xidx2segments, msk, ii, divzero, result, lens, fsp, trace>>

-----------------------------------------------------------------------------
(* Exact rational arithmetic standing for the real-valued numpy arithmetic *)

Abs(a) == IF a < 0 THEN -a ELSE a

RECURSIVE Gcd(_, _)
Gcd(a, b) == IF b = 0 THEN a ELSE Gcd(b, a % b)

Rat(n, d) ==
    LET s == IF d < 0 THEN -1 ELSE 1
        g == Gcd(Abs(n), Abs(d))
    IN  [n |-> (s * n) \div g, d |-> (s * d) \div g]

RInt(k) == [n |-> k, d |-> 1]
RAdd(a, b) == Rat(a.n * b.d + b.n * a.d, a.d * b.d)
RSub(a, b) == Rat(a.n * b.d - b.n * a.d, a.d * b.d)
RMul(a, b) == Rat(a.n * b.n, a.d * b.d)
RDiv(a, b) == Rat(a.n * b.d, a.d * b.n)
RLt(a, b) == a.n * b.d < b.n * a.d
RLe(a, b) == a.n * b.d <= b.n * a.d
RMin(a, b) == IF RLt(b, a) THEN b ELSE a
RMax(a, b) == IF RLt(a, b) THEN b ELSE a
Half == [n |-> 1, d |-> 2]

\* np.ceil
Ceil(a) == -((-a.n) \div a.d)

RECURSIVE SeqMin(_)
SeqMin(s) == IF Len(s) = 1 THEN s[1]
             ELSE LET r == SeqMin(Tail(s)) IN IF s[1] < r THEN s[1] ELSE r

RECURSIVE SeqMax(_)
SeqMax(s) == IF Len(s) = 1 THEN s[1]
             ELSE LET r == SeqMax(Tail(s)) IN IF s[1] > r THEN s[1] ELSE r

-----------------------------------------------------------------------------
(* unstructured_xy2grid_xy_vectors                                          *)

AxisValuesNoOffset(n, delta, lo) ==
    [k \in 1..n |-> RAdd(RMul(RInt(k - 1), delta), RInt(lo))]

\* (np.arange(steps) + .5) * delta + lo: the cell centres of one axis
AxisValues(n, delta, lo) ==
    [k \in 1..n |-> RAdd(RMul(RAdd(RInt(k - 1), Half), delta), RInt(lo))]

unstructured_xy2grid_xy_vectors(x, y, nsteps) ==
    IF Len(x) # Len(y) THEN [err |-> "Shape mismatch", xi |-> <<>>, yi |-> <<>>]
    ELSE
    LET xmin == SeqMin(x)
        ymin == SeqMin(y)
        xran == RInt(SeqMax(x) - xmin)
        yran == RInt(SeqMax(y) - ymin)
        delta == RDiv(RMin(xran, yran), RInt(nsteps - 1))
        xsteps == 1 + Ceil(RDiv(xran, delta))
        ysteps == 1 + Ceil(RDiv(yran, delta))
    IN  [err |-> "", xi |-> AxisValues(xsteps, delta, xmin),
                     yi |-> AxisValues(ysteps, delta, ymin)]

-----------------------------------------------------------------------------
(* unstructured_xy2grid_xy_vectors in IEEE-754 double precision: the axis   *)
(* lengths 1 + ceil(ran / delta) depend on how the two divisions round.     *)
(* A positive double is [m, e], the value m * 2^e with 2^52 <= m < 2^53;    *)
(* m is kept as two limbs <<hi, lo>>, m = hi * 2^27 + lo.                   *)

MantissaBits == 53
Limb == 2^27

BigTwice(a) == <<2 * a[1] + (2 * a[2]) \div Limb, (2 * a[2]) % Limb>>
BigOdd(a) == a[2] % 2 = 1
BigGE(a, b) == a[1] > b[1] \/ (a[1] = b[1] /\ a[2] >= b[2])
BigSub(a, b) == IF a[2] >= b[2] THEN <<a[1] - b[1], a[2] - b[2]>>
                ELSE <<a[1] - b[1] - 1, a[2] + Limb - b[2]>>
BigInc(a) == IF a[2] + 1 = Limb THEN <<a[1] + 1, 0>> ELSE <<a[1], a[2] + 1>>

\* 2^(MantissaBits - 1) and 2^MantissaBits
MantissaMin == <<2^(MantissaBits - 1 - 27), 0>>
MantissaTop == <<2^(MantissaBits - 27), 0>>

\* floor(log2(k)) for an integer k >= 1
RECURSIVE Log2(_)
Log2(k) == IF k < 2 THEN 0 ELSE 1 + Log2(k \div 2)

\* the double of an integer 1 <= k < 2^26 (exact)
FromInt(k) == [m |-> <<k * 2^(MantissaBits - 28 - Log2(k)), 0>>,
               e |-> Log2(k) - (MantissaBits - 1)]

FLess(a, b) == a.e < b.e \/ (a.e = b.e /\ ~BigGE(a.m, b.m))
FMin(a, b) == IF FLess(b, a) THEN b ELSE a

\* n more bits of the quotient rem / d, for rem < d: <<quotient, remainder>>
\* (restoring division; the guard q2[1] >= 0 /\ rest[1] >= 0 is always true
\* and only makes TLC evaluate both before the next step)
RECURSIVE DivBits(_, _, _, _)
DivBits(q, rem, d, n) ==
    IF n = 0 THEN <<q, rem>>
    ELSE LET r2 == BigTwice(rem)
             bit == BigGE(r2, d)
             q2 == IF bit THEN BigInc(BigTwice(q)) ELSE BigTwice(q)
             rest == IF bit THEN BigSub(r2, d) ELSE r2
         IN  IF q2[1] >= 0 /\ rest[1] >= 0 THEN DivBits(q2, rest, d, n - 1)
             ELSE <<q2, rest>>

\* round to nearest, ties to even, from the truncated quotient and remainder
Rounded(q, rem, d, e) ==
    LET r2 == BigTwice(rem)
        up == IF r2 = d THEN BigOdd(q) ELSE BigGE(r2, d)
        m == IF up THEN BigInc(q) ELSE q
    IN  IF m = MantissaTop THEN [m |-> MantissaMin, e |-> e + 1] ELSE [m |-> m, e |-> e]

\* a / b on doubles
FDiv(a, b) ==
    IF BigGE(a.m, b.m)
    THEN LET qr == DivBits(<<0, 1>>, BigSub(a.m, b.m), b.m, MantissaBits - 1)
         IN  Rounded(qr[1], qr[2], b.m, a.e - b.e - (MantissaBits - 1))
    ELSE LET qr == DivBits(<<0, 0>>, a.m, b.m, MantissaBits)
         IN  Rounded(qr[1], qr[2], b.m, a.e - b.e - MantissaBits)

\* np.ceil of a double in [1, 2^27): the integer part, plus one if a bit of
\* the fraction is set; k = -e bits of m are fraction bits, 26 <= k <= 52
FCeil(a) ==
    LET k == -a.e
        hi == a.m[1]
        lo == a.m[2]
        whole == IF k >= 27 THEN hi \div 2^(k - 27)
                 ELSE hi * 2^(27 - k) + lo \div 2^k
        fraction == IF k >= 27 THEN hi % 2^(k - 27) # 0 \/ lo # 0
                    ELSE lo % 2^k # 0
    IN  whole + (IF fraction THEN 1 ELSE 0)

\* line 72-84 in doubles: <<len(xi), len(yi)>>
grid_lengths(x, y, nsteps) ==
    LET xran == FromInt(SeqMax(x) - SeqMin(x))
        yran == FromInt(SeqMax(y) - SeqMin(y))
        delta == FDiv(FMin(xran, yran), FromInt(nsteps - 1))
        xsteps == 1 + FCeil(FDiv(xran, delta))
        ysteps == 1 + FCeil(FDiv(yran, delta))
    IN  <<xsteps, ysteps>>

-----------------------------------------------------------------------------
(* flat_surface2xy: the flatness gate                                       *)

\* a face normal is a triple of components; a component is a rational or NaN
Num(n, d) == [isnan |-> FALSE, v |-> Rat(n, d)]
NaN == [isnan |-> TRUE, v |-> RInt(0)]
Vec(a, b, c, d) == <<Num(a, d), Num(b, d), Num(c, d)>>

\* np.all(np.logical_not(np.isnan(face_normals)), 1)
NoNaN(normal) == \A c \in 1..3 : ~normal[c].isnan

ValidFaces(normals) == {k \in 1..Len(normals) : NoNaN(normals[k])}

RECURSIVE SumOver(_, _, _)
SumOver(normals, faces, c) ==
    IF faces = {} THEN RInt(0)
    ELSE LET k == CHOOSE f \in faces : TRUE
         IN  RAdd(normals[k][c].v, SumOver(normals, faces \ {k}, c))

\* Surface.nanmean_face_normal: the mean of the face normals without NaN
\* (the mean of no face is NaN)
nanmean_face_normal(normals) ==
    LET valid == ValidFaces(normals)
        cnt == Cardinality(valid)
    IN  [c \in 1..3 |->
            IF cnt = 0 THEN NaN
            ELSE [isnan |-> FALSE,
                  v |-> RDiv(SumOver(normals, valid, c), RInt(cnt))]]

\* np.dot(avg_face_normal, face_normal) of a face without NaN
Dot(avg, normal) ==
    LET t(c) == RMul(avg[c].v, normal[c].v)
    IN  RAdd(RAdd(t(1), t(2)), t(3))

RAbs(a) == [n |-> Abs(a.n), d |-> a.d]

\* abs(1 - abs(np.dot(avg_face_normal, n_k)))
Deformation(avg, normal) == RAbs(RSub(RInt(1), RAbs(Dot(avg, normal))))

\* the faces whose deformation reaches max_deformation
TooDeformedLax(normals, maxdef) ==
    LET avg == nanmean_face_normal(normals)
    IN  {k \in ValidFaces(normals) : RLe(maxdef, Deformation(avg, normals[k]))}

\* np.nonzero(deformations > max_deformation)[0], over face_normals[msk]
TooDeformed(normals, maxdef) ==
    LET avg == nanmean_face_normal(normals)
    IN  {k \in ValidFaces(normals) : RLt(maxdef, Deformation(avg, normals[k]))}

\* flat_surface2xy raises ValueError('Surface is not sufficiently flat ...')
NotFlat(normals, maxdef) == TooDeformed(normals, maxdef) # {}

-----------------------------------------------------------------------------
(* flat_surface2grid_mask: the column index of the border segments           *)

\* vi2xi = (x - xmin) / delta, with delta = xi[1] - xi[0]
VirtualIndex(x, axis) ==
    LET xmin == SeqMin(x)
        delta == RSub(axis[2], axis[1])
    IN  [k \in 1..Len(x) |-> RDiv(RInt(x[k] - xmin), delta)]

\* the walk over one path that pairs no vertex with the last one
TourOpen(pth) ==
    [k \in 1..(Len(pth) - 1) |-> <<pth[k + 1], pth[k]>>]

\* the tour over one path: j starts at pth[-1], each i is paired with the
\* vertex before it
Tour(pth) ==
    [k \in 1..Len(pth) |-> <<pth[k], IF k = 1 THEN pth[Len(pth)] ELSE pth[k - 1]>>]

RECURSIVE Tours(_)
Tours(pths) == IF pths = <<>> THEN <<>> ELSE Tour(Head(pths)) \o Tours(Tail(pths))

SegmentColumnsClosed(v, seg) ==
    LET p == RMin(v[seg[1]], v[seg[2]])
        q == RMax(v[seg[1]], v[seg[2]])
    IN  Ceil(p) .. Ceil(q)

SegmentColumnsOpenClosed(v, seg) ==
    LET p == RMin(v[seg[1]], v[seg[2]])
        q == RMax(v[seg[1]], v[seg[2]])
    IN  (Ceil(p) + 1) .. Ceil(q)

\* np.arange(np.ceil(p), np.ceil(q)) for p, q = min(pq), max(pq)
SegmentColumns(v, seg) ==
    LET p == RMin(v[seg[1]], v[seg[2]])
        q == RMax(v[seg[1]], v[seg[2]])
    IN  Ceil(p) .. (Ceil(q) - 1)

\* the dict xidx2segments after the loop over the paths: a column is a key
\* iff a segment was appended to it; the list keeps the order of the tour
BuildIndex(v, pths) ==
    LET tour == Tours(pths)
        keys == UNION {SegmentColumns(v, tour[k]) : k \in 1..Len(tour)}
        Here(c) == LET In(seg) == c \in SegmentColumns(v, seg)
                   IN  SelectSeq(tour, In)
    IN  [c \in keys |-> Here(c)]

-----------------------------------------------------------------------------
(* flat_surface2grid_mask: the parity test of one grid position              *)

\* x[j] - x[i] = 0: numpy divides to inf or nan instead of raising
ZeroDenominator(x, seg) == x[seg[2]] = x[seg[1]]

\* ypos < (y[j] - y[i]) * (xpos - x[i]) / (x[j] - x[i]) + y[i]
Below(x, y, seg, xpos, ypos) ==
    LET i == seg[1]
        j == seg[2]
        num == RMul(RInt(y[j] - y[i]), RSub(xpos, RInt(x[i])))
    IN  IF ZeroDenominator(x, seg)
        THEN num.n > 0       \* +inf: True; -inf and nan: False
        ELSE RLt(ypos, RAdd(RDiv(num, RInt(x[j] - x[i])), RInt(y[i])))

\* c = False; for i, j in segments: if ...: c = not c
RECURSIVE Parity(_, _, _, _, _)
Parity(x, y, segments, xpos, ypos) ==
    IF segments = <<>> THEN FALSE
    ELSE LET rest == Parity(x, y, Tail(segments), xpos, ypos)
         IN  IF Below(x, y, Head(segments), xpos, ypos) THEN ~rest ELSE rest

\* the loop over enumerate(yi) for a column that has segments
MaskColumn(x, y, index, axx, axy, col) ==
    [jj \in 0..(Len(axy) - 1) |->
        Parity(x, y, index[col], axx[col + 1], axy[jj + 1])]

\* np.zeros(yxshape, dtype=np.bool_)
Zeros(axx, axy) == [jj \in 0..(Len(axy) - 1) |-> [c \in 0..(Len(axx) - 1) |-> FALSE]]

WithColumn(m, col, column) == [jj \in DOMAIN m |-> [m[jj] EXCEPT ![col] = column[jj]]]

-----------------------------------------------------------------------------
(* flat_surface2grid_mask, one step per stage and per grid column            *)

\* line 186-187: flat_surface2xy returns x, y or raises
Project ==
    /\ pc = "start"
    /\ pc' = IF NotFlat(surface.normals, max_deformation) THEN "raised" ELSE "projected"
    /\ UNCHANGED <<inputs, xi, yi, vi2xi, xidx2segments, msk, ii, divzero, result,
                   lens, plotvars>>

\* line 188-192
BuildGrid ==
    /\ pc = "projected"
    /\ LET g == unstructured_xy2grid_xy_vectors(surface.x, surface.y, min_nsteps)
       IN  /\ xi' = g.xi
           /\ yi' = g.yi
           /\ vi2xi' = VirtualIndex(surface.x, g.xi)
    /\ pc' = "index"
    /\ UNCHANGED <<inputs, xidx2segments, msk, ii, divzero, result, lens, plotvars>>

\* line 195-225
IndexBorder ==
    /\ pc = "index"
    /\ xidx2segments' = BuildIndex(vi2xi, surface.pths)
    /\ msk' = Zeros(xi, yi)
    /\ ii' = 0
    /\ pc' = "raster"
    /\ UNCHANGED <<inputs, xi, yi, vi2xi, divzero, result, lens, plotvars>>

\* line 229-241, one column
RasterColumn ==
    /\ pc = "raster"
    /\ ii < Len(xi)
    /\ IF ii \in DOMAIN xidx2segments
       THEN /\ msk' = WithColumn(msk, ii,
                        MaskColumn(surface.x, surface.y, xidx2segments, xi, yi, ii))
            /\ divzero' = (divzero \/ \E k \in 1..Len(xidx2segments[ii]) :
                                ZeroDenominator(surface.x, xidx2segments[ii][k]))
       ELSE UNCHANGED <<msk, divzero>>
    /\ ii' = ii + 1
    /\ UNCHANGED <<inputs, pc, xi, yi, vi2xi, xidx2segments, result, lens, plotvars>>

\* line 243
Return ==
    /\ pc = "raster"
    /\ ii = Len(xi)
    /\ result' = <<surface.x, surface.y, msk, xi, yi>>
    /\ pc' = "done"
    /\ UNCHANGED <<inputs, xi, yi, vi2xi, xidx2segments, msk, ii, divzero, lens,
                   plotvars>>

Next == Project \/ BuildGrid \/ IndexBorder \/ RasterColumn \/ Return

\* flat_surface2grid_mask as one function of its arguments
flat_surface2grid_mask(s, nsteps, maxdef) ==
    IF NotFlat(s.normals, maxdef) THEN [raised |-> TRUE, value |-> <<>>]
    ELSE
    LET g == unstructured_xy2grid_xy_vectors(s.x, s.y, nsteps)
        index == BuildIndex(VirtualIndex(s.x, g.xi), s.pths)
        m == [jj \in 0..(Len(g.yi) - 1) |-> [c \in 0..(Len(g.xi) - 1) |->
                IF c \in DOMAIN index
                THEN MaskColumn(s.x, s.y, index, g.xi, g.yi, c)[jj]
                ELSE FALSE]]
    IN  [raised |-> FALSE, value |-> <<s.x, s.y, m, g.xi, g.yi>>]

-----------------------------------------------------------------------------
(* The surfaces and arguments the checks run over                            *)

MaxX == 2
MaxY == 2
MaxNsteps == 3
WideX == 3
WideY == 4
NumFaces == 3

VertexIds == 1..3

FlatNormals == <<Vec(0, 0, 1, 1), Vec(0, 0, 1, 1)>>

\* border paths over three vertices: one loop; the loop walked with a vertex
\* repeated; a single vertex beside a two-vertex loop
PathOptions ==
    { << <<1, 2, 3>> >>,
      << <<1, 1, 2, 3>> >>,
      << <<1>>, <<2, 3>> >> }

\* max_deformation=.5, the default of FlatSurfacePlotter.__init__
DefaultMaxDeformation == Rat(1, 2)

\* both ranges of the projected coordinates are positive
PositiveRanges ==
    /\ SeqMax(surface.x) > SeqMin(surface.x)
    /\ SeqMax(surface.y) > SeqMin(surface.y)

GeoStart ==
    /\ pc = "start"
    /\ xi = <<>> /\ yi = <<>> /\ vi2xi = <<>>
    /\ xidx2segments = <<>> /\ msk = <<>>
    /\ ii = 0
    /\ divzero = FALSE
    /\ result = <<>>
    /\ lens = <<>>
    /\ fsp = <<>> /\ trace = <<>>

\* flat triangles on a small grid, with every kind of border path
Init ==
    /\ surface \in [x : [VertexIds -> 0..MaxX],
                    y : [VertexIds -> 0..MaxY],
                    pths : PathOptions,
                    normals : {FlatNormals}]
    /\ PositiveRanges
    /\ min_nsteps \in 2..MaxNsteps
    /\ max_deformation = DefaultMaxDeformation
    /\ GeoStart

Spec == Init /\ [][Next]_vars

\* proper triangles on a wider grid, the border one simple loop
Area2(s) == (s.x[2] - s.x[1]) * (s.y[3] - s.y[1]) - (s.y[2] - s.y[1]) * (s.x[3] - s.x[1])

InitLoop ==
    /\ surface \in [x : [VertexIds -> 0..WideX],
                    y : [VertexIds -> 0..WideY],
                    pths : {<< <<1, 2, 3>> >>},
                    normals : {FlatNormals}]
    /\ Area2(surface) # 0
    /\ min_nsteps \in 2..MaxNsteps
    /\ max_deformation = DefaultMaxDeformation
    /\ GeoStart

SpecLoop == InitLoop /\ [][Next]_vars

\* the unit square of spec section 8, its border walked from every corner in
\* both directions, min_nsteps = 10
SquarePaths ==
    { <<1, 2, 3, 4>>, <<2, 3, 4, 1>>, <<3, 4, 1, 2>>, <<4, 1, 2, 3>>,
      <<4, 3, 2, 1>>, <<3, 2, 1, 4>>, <<2, 1, 4, 3>>, <<1, 4, 3, 2>> }

InitSquare ==
    /\ surface \in [x : {<<0, 1, 1, 0>>},
                    y : {<<0, 0, 1, 1>>},
                    pths : {<<p>> : p \in SquarePaths},
                    normals : {FlatNormals}]
    /\ min_nsteps = 10
    /\ max_deformation = DefaultMaxDeformation
    /\ GeoStart

SpecSquare == InitSquare /\ [][Next]_vars

\* one flat triangle with every combination of face normals and tolerances
NormalSet ==
    { Vec(0, 0, 1, 1), Vec(0, 0, -1, 1), Vec(1, 2, 2, 3), Vec(2, 2, 1, 3),
      Vec(1, 0, 0, 1), <<NaN, NaN, NaN>>, <<Num(0, 1), NaN, Num(1, 1)>> }

Tolerances == {Rat(0, 1), Rat(1, 9), Rat(1, 3), Rat(1, 2), Rat(1, 1)}

InitFlat ==
    /\ surface \in [x : {<<0, 2, 0>>},
                    y : {<<0, 0, 2>>},
                    pths : {<< <<1, 2, 3>> >>},
                    normals : [1..NumFaces -> NormalSet]]
    /\ min_nsteps = 2
    /\ max_deformation \in Tolerances
    /\ GeoStart

SpecFlat == InitFlat /\ [][Next]_vars

-----------------------------------------------------------------------------
(* unstructured_xy2grid_xy_vectors in double precision, on two-point data    *)

MaxRange == 4
MaxDoubleNsteps == 50

\* line 72-84: the lengths of the two axes as numpy computes them
ComputeLengths ==
    /\ pc = "start"
    /\ lens' = grid_lengths(surface.x, surface.y, min_nsteps)
    /\ pc' = "lengths"
    /\ UNCHANGED <<inputs, xi, yi, vi2xi, xidx2segments, msk, ii, divzero, result,
                   plotvars>>

NextDouble == ComputeLengths

InitDouble ==
    /\ surface \in [x : {<<0, a>> : a \in 1..MaxRange},
                    y : {<<0, b>> : b \in 1..MaxRange},
                    pths : {<< <<1, 2>> >>},
                    normals : {FlatNormals}]
    /\ min_nsteps \in 2..MaxDoubleNsteps
    /\ max_deformation = DefaultMaxDeformation
    /\ GeoStart

SpecDouble == InitDouble /\ [][NextDouble]_vars

-----------------------------------------------------------------------------
(* FlatSurfacePlotter: surface, min_nsteps and max_deformation are the       *)
(* fields _surface, _min_nsteps, _max_deformation; fsp holds _curvature,     *)
(* _grid_def and _underlay.  trace records what the calls did: the number    *)
(* of __call__ invocations, of flat_surface2grid_mask invocations and of     *)
(* its returns, and for the latest __call__ the error it raised ("" when it  *)
(* returned), the griddata interpolations it ran in order, and the state     *)
(* _set_underlay_from_curvature found when it was entered.                   *)

MaxCalls == 3

None == <<>>

\* the rgba underlay flat_surface_curvature2rgba yields (line 466)
CurvatureRgba == "flat_surface_curvature2rgba"
UserUnderlays == {"u1", "u2"}

\* line 450-452
set_underlay(f, u) == [f EXCEPT !.underlay = <<u>>]

\* line 454-467
_set_underlay_from_curvature(f) ==
    IF f.curvature = None
    THEN [raised |-> "Curvature is not set", f |-> f, griddata |-> <<>>]
    ELSE IF f.grid_def = None
    THEN [raised |-> "no attribute _set_grid_def", f |-> f, griddata |-> <<>>]
    ELSE [raised |-> "", f |-> set_underlay(f, CurvatureRgba),
          griddata |-> <<"curvature">>]

\* line 476 taken: the outcome u of _set_underlay_from_curvature entered
\* with the fields f1, after `grids` returns of flat_surface2grid_mask
UnderlayDerived(u, f1, grids) ==
    [raised |-> u.raised, f |-> u.f, griddata |-> u.griddata,
     attempts |-> grids, grids |-> grids,
     entered |-> <<[grid_def |-> f1.grid_def # None,
                    curvature |-> f1.curvature # None]>>]

\* line 475-476 with the test of _underlay left out
_pre_setup_underlay_always(f1, grids) ==
    IF f1.curvature # None
    THEN UnderlayDerived(_set_underlay_from_curvature(f1), f1, grids)
    ELSE [raised |-> "", f |-> f1, griddata |-> <<>>,
          attempts |-> grids, grids |-> grids, entered |-> <<>>]

\* line 475-476
_pre_setup_underlay(f1, grids) ==
    IF f1.underlay = None /\ f1.curvature # None
    THEN UnderlayDerived(_set_underlay_from_curvature(f1), f1, grids)
    ELSE [raised |-> "", f |-> f1, griddata |-> <<>>,
          attempts |-> grids, grids |-> grids, entered |-> <<>>]

\* line 471-476, r the outcome of flat_surface2grid_mask: an error leaves
\* _pre_setup at once, a value is assigned to _grid_def
_pre_setup_grid(f, r) ==
    IF r.raised
    THEN [raised |-> "not flat", f |-> f, griddata |-> <<>>,
          attempts |-> 1, grids |-> 0, entered |-> <<>>]
    ELSE _pre_setup_underlay([f EXCEPT !.grid_def = r.value], 1)

\* _pre_setup without the test of _grid_def
_pre_setup_every_call(f) ==
    _pre_setup_grid(f, flat_surface2grid_mask(surface, min_nsteps, max_deformation))

\* line 469-476: the error raised ("" if none), the fields afterwards, the
\* griddata calls made, how often flat_surface2grid_mask was invoked and
\* returned, and what _set_underlay_from_curvature found if it was entered
_pre_setup(f) ==
    IF f.grid_def = None
    THEN _pre_setup_grid(f, flat_surface2grid_mask(surface, min_nsteps,
                                                   max_deformation))
    ELSE _pre_setup_underlay(f, 0)

\* data.shape of the argument of __call__: (nvertices,) and two others
DataShapes == {Len(surface.x) - 1, Len(surface.x), Len(surface.x) + 1}

\* line 478-516: __call__(data) with data.shape = (shape,)
Call(shape) ==
    /\ pc = "plotter"
    /\ trace.calls < MaxCalls
    /\ \E p \in {_pre_setup(fsp)} :
         \E raised \in {IF p.raised # "" THEN p.raised
                        ELSE IF shape # Len(surface.x) THEN "data shape" ELSE ""} :
           /\ fsp' = p.f
           /\ trace' = [calls |-> trace.calls + 1,
                        attempts |-> trace.attempts + p.attempts,
                        grids |-> trace.grids + p.grids,
                        mismatch |-> shape # Len(surface.x),
                        raised |-> raised,
                        griddata |-> p.griddata \o
                                     (IF raised = "" THEN <<"data">> ELSE <<>>),
                        entered |-> p.entered]
    /\ UNCHANGED <<inputs, pc, xi, yi, vi2xi, xidx2segments, msk, ii, divzero,
                   result, lens>>

\* line 450-452 called by the user
SetUnderlay(u) ==
    /\ pc = "plotter"
    /\ fsp' = set_underlay(fsp, u)
    /\ UNCHANGED <<inputs, pc, xi, yi, vi2xi, xidx2segments, msk, ii, divzero,
                   result, lens, trace>>

NextPlotter ==
    \/ \E shape \in DataShapes : Call(shape)
    \/ \E u \in UserUnderlays : SetUnderlay(u)

\* a face normal that deviates from the other two by more than the default
BentNormals == <<Vec(0, 0, 1, 1), Vec(0, 0, 1, 1), Vec(1, 0, 0, 1)>>

\* line 392-448: a plotter just constructed, with or without curvature
InitPlotter ==
    /\ surface \in [x : {<<0, 2, 0>>, <<0, 1, 2>>},
                    y : {<<0, 0, 2>>},
                    pths : {<< <<1, 2, 3>> >>},
                    normals : {FlatNormals, BentNormals}]
    /\ min_nsteps \in 2..MaxNsteps
    /\ max_deformation = DefaultMaxDeformation
    /\ pc = "plotter"
    /\ xi = <<>> /\ yi = <<>> /\ vi2xi = <<>>
    /\ xidx2segments = <<>> /\ msk = <<>>
    /\ ii = 0
    /\ divzero = FALSE
    /\ result = <<>>
    /\ lens = <<>>
    /\ fsp \in [curvature : {None, <<0, 0, 0>>}, grid_def : {None}, underlay : {None}]
    /\ trace = [calls |-> 0, attempts |-> 0, grids |-> 0, mismatch |-> FALSE,
                raised |-> "", griddata |-> <<>>, entered |-> <<>>]

SpecPlotter == InitPlotter /\ [][NextPlotter]_vars

-----------------------------------------------------------------------------
(* Claims about the rasterizer                                               *)

Returned == pc = "done"

\* the PNPOLY test of the position (xpos, ypos) against every border segment,
\* with the ray along +y: a segment counts iff xpos lies in its half-open
\* x-span and the segment passes above the position
PnpolyCrosses(seg, xpos, ypos) ==
    LET xa == RInt(surface.x[seg[1]])
        xb == RInt(surface.x[seg[2]])
    IN  /\ RLt(xpos, xa) # RLt(xpos, xb)
        /\ Below(surface.x, surface.y, seg, xpos, ypos)

Pnpoly(xpos, ypos) ==
    LET tour == Tours(surface.pths)
    IN  Cardinality({k \in 1..Len(tour) : PnpolyCrosses(tour[k], xpos, ypos)}) % 2 = 1

\* the column through xpos passes through no vertex: there the parity test
\* does not depend on which end of a segment's x-span counts as inside it
ClearOfVertices(xpos) == \A k \in DOMAIN surface.x : xpos # RInt(surface.x[k])

\* C1: every cell of the returned mask equals the PNPOLY parity test of the
\* cell centre (xi[c], yi[r]) against all border segments (stated for the
\* columns that pass through no vertex)
C1_MaskIsPnpoly ==
    Returned =>
        \A r \in 0..(Len(yi) - 1) : \A c \in 0..(Len(xi) - 1) :
            ClearOfVertices(xi[c + 1]) => msk[r][c] = Pnpoly(xi[c + 1], yi[r + 1])

\* C3: for the unit square rasterized with min_nsteps = 10, the mask is True
\* at every cell centre strictly inside the square and False at every cell
\* centre outside it
StrictlyInsideSquare(xpos, ypos) ==
    /\ RLt(RInt(0), xpos) /\ RLt(xpos, RInt(1))
    /\ RLt(RInt(0), ypos) /\ RLt(ypos, RInt(1))

OutsideSquare(xpos, ypos) ==
    \/ RLt(xpos, RInt(0)) \/ RLt(RInt(1), xpos)
    \/ RLt(ypos, RInt(0)) \/ RLt(RInt(1), ypos)

C3_UnitSquare ==
    Returned =>
        \A r \in 0..(Len(yi) - 1) : \A c \in 0..(Len(xi) - 1) :
            /\ StrictlyInsideSquare(xi[c + 1], yi[r + 1]) => msk[r][c]
            /\ OutsideSquare(xi[c + 1], yi[r + 1]) => ~msk[r][c]

\* the square was rasterized on ten columns: cells inside it and cells outside
\* it are in the mask
C3_Witness ==
    /\ Returned
    /\ min_nsteps = 10
    /\ surface.x = <<0, 1, 1, 0>> /\ surface.y = <<0, 0, 1, 1>>
    /\ \E r \in DOMAIN msk : \E c \in DOMAIN msk[r] :
          StrictlyInsideSquare(xi[c + 1], yi[r + 1]) /\ msk[r][c]
    /\ \E r \in DOMAIN msk : \E c \in DOMAIN msk[r] :
          OutsideSquare(xi[c + 1], yi[r + 1]) /\ ~msk[r][c]

-----------------------------------------------------------------------------
(* Claims about the flatness gate                                            *)

FaceDeformation(k) ==
    Deformation(nanmean_face_normal(surface.normals), surface.normals[k])

Planar ==
    \A k \in DOMAIN surface.normals :
        NoNaN(surface.normals[k]) /\ surface.normals[k] = surface.normals[1]

-----------------------------------------------------------------------------
(* Claims about the column index and the axes                                *)

Indexed == pc \in {"raster", "done"}
GridBuilt == pc \in {"index", "raster", "done"}

\* segment seg is in the list of column c
Registered(seg, c) ==
    /\ c \in DOMAIN xidx2segments
    /\ \E n \in 1..Len(xidx2segments[c]) : xidx2segments[c][n] = seg

SegP(seg) == RMin(vi2xi[seg[1]], vi2xi[seg[2]])
SegQ(seg) == RMax(vi2xi[seg[1]], vi2xi[seg[2]])

\* every column a check looks at: the grid columns and one beyond each end
Columns == -1 .. Len(xi)

TourSegments == {Tours(surface.pths)[k] : k \in 1..Len(Tours(surface.pths))}

\* C6 as stated: a border segment is registered under exactly the columns c
\* with ceil(p) < c <= ceil(q)
C6_OpenClosedRange ==
    Indexed =>
        \A seg \in TourSegments : \A c \in Columns :
            Registered(seg, c) <=> (Ceil(SegP(seg)) < c /\ c <= Ceil(SegQ(seg)))

\* C6 amended: a border segment is registered under exactly the columns c
\* with ceil(p) <= c < ceil(q), and nothing but border segments is registered
C6_ClosedOpenRange ==
    Indexed =>
        /\ \A seg \in TourSegments : \A c \in Columns :
              Registered(seg, c) <=> (Ceil(SegP(seg)) <= c /\ c < Ceil(SegQ(seg)))
        /\ DOMAIN xidx2segments \subseteq Columns
        /\ \A c \in DOMAIN xidx2segments : \A n \in 1..Len(xidx2segments[c]) :
              xidx2segments[c][n] \in TourSegments

\* a segment spanning several columns and one spanning none were indexed
C6_Witness ==
    /\ Indexed
    /\ \E seg \in TourSegments : Ceil(SegQ(seg)) - Ceil(SegP(seg)) >= 2
    /\ \E seg \in TourSegments : Ceil(SegP(seg)) = Ceil(SegQ(seg))

\* C7 as stated: every axis value lies strictly between the minimum and the
\* maximum of the data
C7_StrictlyInside ==
    GridBuilt =>
        /\ \A k \in 1..Len(xi) : /\ RLt(RInt(SeqMin(surface.x)), xi[k])
                                 /\ RLt(xi[k], RInt(SeqMax(surface.x)))
        /\ \A k \in 1..Len(yi) : /\ RLt(RInt(SeqMin(surface.y)), yi[k])
                                 /\ RLt(yi[k], RInt(SeqMax(surface.y)))

\* C7 amended: every axis value lies strictly above the minimum of the data,
\* and the last value of each axis lies strictly above the maximum of the data
C7_AboveMinLastAboveMax ==
    GridBuilt =>
        /\ \A k \in 1..Len(xi) : RLt(RInt(SeqMin(surface.x)), xi[k])
        /\ \A k \in 1..Len(yi) : RLt(RInt(SeqMin(surface.y)), yi[k])
        /\ RLt(RInt(SeqMax(surface.x)), xi[Len(xi)])
        /\ RLt(RInt(SeqMax(surface.y)), yi[Len(yi)])

\* axes of different lengths were built and the mask was returned on them
C7_Witness ==
    /\ Returned
    /\ Len(xi) >= 3
    /\ Len(yi) # Len(xi)

\* C8: no division by x[j] - x[i] = 0 is evaluated, and every segment in the
\* index has x[i] # x[j]
C8_NoZeroDenominator ==
    /\ ~divzero
    /\ \A c \in DOMAIN xidx2segments : \A n \in 1..Len(xidx2segments[c]) :
          ~ZeroDenominator(surface.x, xidx2segments[c][n])

\* a mask was returned for paths holding a vertical edge between two distinct
\* vertices and a segment from a vertex to itself
C8_Witness ==
    /\ Returned
    /\ \E seg \in TourSegments : seg[1] # seg[2] /\ ZeroDenominator(surface.x, seg)
    /\ \E seg \in TourSegments : seg[1] = seg[2]
    /\ \E r \in DOMAIN msk : \E c \in DOMAIN msk[r] : msk[r][c]


-----------------------------------------------------------------------------
(* Claims about the axis lengths in double precision                         *)

\* C2: the shorter of len(xi), len(yi) equals min_nsteps for every data with
\* positive ranges and every min_nsteps >= 2.
C2_ShorterAxisIsMinNsteps ==
    pc = "lengths" =>
        (IF lens[1] < lens[2] THEN lens[1] ELSE lens[2]) = min_nsteps

-----------------------------------------------------------------------------
(* Claims about FlatSurfacePlotter                                           *)

Called == pc = "plotter" /\ trace.calls > 0

\* C4: a __call__ whose data has the wrong shape raises the shape error
\* before any griddata interpolation has run in that call.
C4_ShapeErrorBeforeGriddata ==
    (Called /\ trace.mismatch /\ trace.raised = "data shape") => trace.griddata = <<>>

\* C9: over any sequence of calls flat_surface2grid_mask returns at most once;
\* a _grid_def that is set is neither recomputed nor changed; a call in which
\* flat_surface2grid_mask raises leaves _grid_def unset, and every call that
\* finds _grid_def unset invokes flat_surface2grid_mask again.
C9_GridComputedOnce ==
    [][/\ trace'.grids <= 1
       /\ fsp.grid_def # None =>
            fsp'.grid_def = fsp.grid_def /\ trace'.attempts = trace.attempts
       /\ (trace'.calls # trace.calls /\ trace'.raised = "not flat") =>
            fsp'.grid_def = None
       /\ (trace'.calls # trace.calls /\ fsp.grid_def = None) =>
            trace'.attempts = trace.attempts + 1]_vars

\* two calls were made and the second found _grid_def set
C9_Witness ==
    /\ pc = "plotter"
    /\ trace.calls >= 2
    /\ trace.grids = 1
    /\ trace.attempts = 1
    /\ fsp.grid_def # None

\* C10: whenever a call enters _set_underlay_from_curvature, _grid_def is set
\* and curvature is present, so neither "Curvature is not set" nor the call
\* of the missing _set_grid_def happens; and an underlay installed through
\* set_underlay is never replaced by the curvature-derived one.
C10_UnderlayFromCurvatureGuarded ==
    [][/\ \A k \in 1..Len(trace'.entered) :
            trace'.entered[k].grid_def /\ trace'.entered[k].curvature
       /\ trace'.raised \notin {"Curvature is not set", "no attribute _set_grid_def"}
       /\ (fsp.underlay # None /\ fsp.underlay # <<CurvatureRgba>>) =>
            fsp'.underlay # <<CurvatureRgba>>]_vars

\* a call has entered _set_underlay_from_curvature and installed its underlay
C10_Witness ==
    /\ Called
    /\ trace.entered # <<>>
    /\ fsp.underlay = <<CurvatureRgba>>

====
